---- MODULE Spec2Model ----
(***************************************************************************)
(* Model of pi_deployment/ursus_data_logger.py: the UrsusDataLogger class, *)
(* its four direct logging calls, batch_log_trades, the two read           *)
(* accessors, the value normalizer _convert_decimals, the background       *)
(* thread _batch_processor and shutdown.                                   *)
(***************************************************************************)
EXTENDS Integers, Sequences, FiniteSets, TLC

VARIABLES
    tables,        \* table name -> set of items the store holds
    data_queue,    \* self.data_queue
    running,       \* self.running
    workerPc,      \* position of the processor thread in _batch_processor
    sleepLeft,     \* seconds left of the worker's time.sleep(flush_interval)
    workerCalls,   \* store calls issued by the processor thread
    shutdownPc,    \* position of the caller inside shutdown()
    joinLeft,      \* seconds left of processor_thread.join(timeout=5)
    lastOp,        \* the last public operation the caller completed
    opCount,       \* number of public operations completed
    normArg,       \* argument of the last _convert_decimals application
    normRes        \* its result

vars == <<tables, data_queue, running, workerPc, sleepLeft, workerCalls,
          shutdownPc, joinLeft, lastOp, opCount, normArg, normRes>>

-----------------------------------------------------------------------------
(* Bounds of the model *)

MaxLen == 2        \* longest list / largest mapping of the normalizer inputs
MaxTrades == 51    \* longest list handed to batch_log_trades
MaxOps == 2        \* public operations per behaviour
MaxTime == 1       \* timestamps and clock readings range over 0..MaxTime
TickLen == 5       \* seconds by which one step of time advances the timers

(* Program constants *)

batch_size == 25
flush_interval == 30
join_timeout == 5

Min(a, b) == IF a < b THEN a ELSE b
Max(a, b) == IF a > b THEN a ELSE b

-----------------------------------------------------------------------------
(* Python values. A value is a record [t, v]: t is the Python type, v the   *)
(* payload. A float carries its repr text, a Decimal its decimal text, a    *)
(* timestamp string the instant it denotes (ISO-8601 strings of one format  *)
(* order as their instants do).                                             *)

PyFloat(s)   == [t |-> "float",   v |-> s]
PyDecimal(s) == [t |-> "Decimal", v |-> s]
PyStr(s)     == [t |-> "str",     v |-> s]
PyInt(s)     == [t |-> "int",     v |-> s]
PyIso(n)     == [t |-> "isostr",  v |-> n]
PyNone       == [t |-> "None",    v |-> "None"]
PyDict(f)    == [t |-> "dict",    v |-> f]
PyList(q)    == [t |-> "list",    v |-> q]

\* str(x) of a float: its repr text
str(x) == PyStr(x.v)

\* Decimal(s) of a string: the special values are renamed, digits are kept
Decimal(s) ==
    PyDecimal(CASE s.v = "nan"  -> "NaN"
                [] s.v = "inf"  -> "Infinity"
                [] s.v = "-inf" -> "-Infinity"
                [] OTHER        -> s.v)

RECURSIVE convert_decimals_droplast(_)
convert_decimals_droplast(data) ==
    CASE data.t = "dict" ->
            PyDict([k \in DOMAIN data.v |-> convert_decimals_droplast(data.v[k])])
      [] data.t = "list" ->
            PyList([i \in 1..(Len(data.v) - 1) |-> convert_decimals_droplast(data.v[i])])
      [] data.t = "float" -> Decimal(str(data))
      [] OTHER -> data

RECURSIVE convert_decimals_shallow(_)
convert_decimals_shallow(data) ==
    CASE data.t = "dict" ->
            PyDict([k \in DOMAIN data.v |-> convert_decimals_shallow(data.v[k])])
      [] data.t = "list" -> data
      [] data.t = "float" -> Decimal(str(data))
      [] OTHER -> data

RECURSIVE convert_decimals(_)
convert_decimals(data) ==
    CASE data.t = "dict" ->
            PyDict([k \in DOMAIN data.v |-> convert_decimals(data.v[k])])
      [] data.t = "list" ->
            PyList([i \in 1..Len(data.v) |-> convert_decimals(data.v[i])])
      [] data.t = "float" -> Decimal(str(data))
      [] OTHER -> data

\* TRUE iff a binary float occurs in x at any nesting depth
RECURSIVE HasFloat(_)
HasFloat(x) ==
    CASE x.t = "float" -> TRUE
      [] x.t = "dict"  -> \E k \in DOMAIN x.v : HasFloat(x.v[k])
      [] x.t = "list"  -> \E i \in 1..Len(x.v) : HasFloat(x.v[i])
      [] OTHER -> FALSE

-----------------------------------------------------------------------------
(* The record shapes and the inputs the caller draws from *)

TradeTable    == "CryonithTradeLogs"
MetricsTable  == "CryonithStrategyMetrics"
SignalsTable  == "CryonithMarketSignals"
PerfTable     == "CryonithPerformance"
TableNames    == {TradeTable, MetricsTable, SignalsTable, PerfTable}

\* clock readings and caller-made timestamps, in hours
Instants == {24 * d : d \in 0..MaxTime}

\* the k-th TradeLog of a test series
TradeLog(k) ==
    [t |-> "TradeLog",
     v |-> [trade_id          |-> PyStr(ToString(k)),
            timestamp         |-> PyIso(24 * (k % (MaxTime + 1))),
            strategy          |-> PyStr("ursus_momentum_v1"),
            symbol            |-> PyStr("TSLA"),
            action            |-> PyStr(IF k % 2 = 1 THEN "BUY" ELSE "SELL"),
            quantity          |-> PyFloat("100.0"),
            price             |-> PyFloat("245.5"),
            confidence        |-> PyFloat("0.85"),
            market_signal     |-> PyStr("BULLISH_MOMENTUM"),
            execution_time_ms |-> PyFloat("150.5"),
            profit_loss       |-> IF k % 2 = 1 THEN PyNone ELSE PyFloat("-12.25"),
            portfolio_value   |-> PyFloat("50000.0")]]

StrategyMetric(sid, ts) ==
    [t |-> "StrategyMetric",
     v |-> [strategy_id       |-> PyStr(sid),
            timestamp         |-> PyIso(ts),
            win_rate          |-> PyFloat("0.68"),
            total_trades      |-> PyInt("45"),
            profit_loss       |-> PyFloat("2750.5"),
            sharpe_ratio      |-> PyFloat("1.85"),
            max_drawdown      |-> PyFloat("0.12"),
            current_positions |-> PyInt("3"),
            avg_hold_time     |-> PyFloat("4.5")]]

MarketSignal(id, indicators) ==
    [t |-> "MarketSignal",
     v |-> [signal_id       |-> PyStr(id),
            timestamp       |-> PyIso(0),
            symbol          |-> PyStr("TSLA"),
            signal_type     |-> PyStr("BUY"),
            strength        |-> PyFloat("0.82"),
            indicators      |-> indicators,
            news_sentiment  |-> PyFloat("0.7"),
            volume_analysis |-> PyNone]]

DataclassTypes == {"TradeLog", "StrategyMetric", "MarketSignal"}

\* dataclasses.asdict: defined on dataclass instances only (TypeError otherwise)
is_dataclass(obj) == obj.t \in DataclassTypes
asdict(obj) == PyDict(obj.v)

TradeList(n) == [k \in 1..n |-> TradeLog(k)]

StrategyIds == {"ursus_momentum_v1"}

TradeInputs  == {TradeLog(k) : k \in 1..MaxLen} \cup {PyNone}
MetricInputs == {StrategyMetric(s, ts) : s \in StrategyIds, ts \in Instants} \cup {PyNone}
SignalInputs ==
    { MarketSignal("S1", PyDict([rsi |-> PyFloat("65.4"), macd |-> PyFloat("2.3")])),
      MarketSignal("S2", PyDict([rsi |-> PyList(<<PyFloat("65.4"), PyFloat("nan")>>),
                                 bands |-> PyDict([upper |-> PyFloat("1.25")])])),
      PyNone }
DailyInputs ==
    { PyDict([pnl |-> PyFloat("2750.5"), trades |-> PyInt("45")]), PyNone }

-----------------------------------------------------------------------------
(* The store boundary: what the table calls of the code do. A call either   *)
(* succeeds or raises; a call that raises leaves the table as it was. The   *)
(* key schemas of the tables are not part of the source: a condition on an  *)
(* attribute that an item lacks selects nothing, be it because nothing      *)
(* matches or because the store rejects the query (an exception the         *)
(* accessor catches).                                                       *)

StoreCall(thread, op, table, chunk, items, ok) ==
    [thread |-> thread, op |-> op, table |-> table, chunk |-> chunk,
     items |-> items, ok |-> ok]

SeqToSet(q) == {q[i] : i \in 1..Len(q)}

\* the orders in which a result set may be returned
Orderings(S) ==
    {q \in [1..Cardinality(S) -> S] : \A i, j \in 1..Cardinality(S) : i # j => q[i] # q[j]}

\* Key(attr).eq(val) and Key(attr).between(lo, hi) on an item
KeyEq(item, attr, val) == attr \in DOMAIN item.v /\ item.v[attr] = val
KeyBetween(item, attr, lo, hi) ==
    /\ attr \in DOMAIN item.v
    /\ item.v[attr].t = "isostr"
    /\ lo <= item.v[attr].v
    /\ item.v[attr].v <= hi
AttrGte(item, attr, lo) ==
    /\ attr \in DOMAIN item.v
    /\ item.v[attr].t = "isostr"
    /\ lo <= item.v[attr].v

\* the sequences that list S in ascending order of the sort-key attribute
Ascending(S, attr) ==
    {q \in Orderings(S) : \A i, j \in 1..Len(q) : i < j => q[i].v[attr].v <= q[j].v[attr].v}

timedelta_days(d) == 24 * d
timedelta_hours(h) == h

\* what the caller sees of a call: the value returned, or an exception raised
OpResult(op, arg, ret, raised, calls) ==
    [op |-> op, arg |-> arg, ret |-> ret, raised |-> raised, calls |-> calls]

CallerFree == opCount < MaxOps /\ shutdownPc \notin {"flagged", "joining"}

NotCaller == <<data_queue, running, workerPc, sleepLeft, workerCalls,
               shutdownPc, joinLeft, normArg, normRes>>

-----------------------------------------------------------------------------
(* The four direct logging calls *)

\* try: item = ...; table.put_item(Item=item); return True
\* except Exception: return False
\* built: the item was built without an exception; ok: the store accepts it.
\* Yields what the caller sees and the tables after the call.
try_put_item_returns_true(op, arg, table, built, item, ok) ==
    IF ~built
    THEN [result |-> OpResult(op, arg, FALSE, FALSE, <<>>), tables |-> tables]
    ELSE [result |-> OpResult(op, arg, TRUE, FALSE,
                       <<StoreCall("caller", "put_item", table, <<>>, <<item>>, ok)>>),
          tables |-> IF ok THEN [tables EXCEPT ![table] = @ \cup {item}] ELSE tables]

try_put_item(op, arg, table, built, item, ok) ==
    IF ~built
    THEN [result |-> OpResult(op, arg, FALSE, FALSE, <<>>), tables |-> tables]
    ELSE [result |-> OpResult(op, arg, ok, FALSE,
                       <<StoreCall("caller", "put_item", table, <<>>, <<item>>, ok)>>),
          tables |-> IF ok THEN [tables EXCEPT ![table] = @ \cup {item}] ELSE tables]

log_trade(trade, ok) ==
    /\ CallerFree
    /\ LET built == is_dataclass(trade)
           item  == IF built THEN convert_decimals(asdict(trade)) ELSE PyNone
           r     == try_put_item("log_trade", trade, TradeTable, built, item, ok)
       IN  lastOp' = r.result /\ tables' = r.tables
    /\ opCount' = opCount + 1
    /\ UNCHANGED NotCaller

log_strategy_metrics(metrics, ok) ==
    /\ CallerFree
    /\ LET built == is_dataclass(metrics)
           item  == IF built THEN convert_decimals(asdict(metrics)) ELSE PyNone
           r     == try_put_item("log_strategy_metrics", metrics, MetricsTable, built, item, ok)
       IN  lastOp' = r.result /\ tables' = r.tables
    /\ opCount' = opCount + 1
    /\ UNCHANGED NotCaller

log_market_signal(signal, ok) ==
    /\ CallerFree
    /\ LET built == is_dataclass(signal)
           item  == IF built THEN convert_decimals(asdict(signal)) ELSE PyNone
           r     == try_put_item("log_market_signal", signal, SignalsTable, built, item, ok)
       IN  lastOp' = r.result /\ tables' = r.tables
    /\ opCount' = opCount + 1
    /\ UNCHANGED NotCaller

\* {'MetricType': ..., 'Date': date, **converted, 'Timestamp': now}: a later key wins
DailyItem(date, converted, now) ==
    PyDict([k \in {"MetricType", "Date", "Timestamp"} \cup DOMAIN converted.v |->
              CASE k = "Timestamp"          -> PyIso(now)
                [] k \in DOMAIN converted.v -> converted.v[k]
                [] k = "MetricType"         -> PyStr("DAILY_PERFORMANCE")
                [] OTHER                    -> PyStr(date)])

\* ** of a value that is no mapping raises TypeError
log_daily_performance(date, metrics, now, ok) ==
    /\ CallerFree
    /\ LET built == metrics.t = "dict"
           item  == IF built THEN DailyItem(date, convert_decimals(metrics), now) ELSE PyNone
           r     == try_put_item("log_daily_performance", metrics, PerfTable, built, item, ok)
       IN  lastOp' = r.result /\ tables' = r.tables
    /\ opCount' = opCount + 1
    /\ UNCHANGED NotCaller

-----------------------------------------------------------------------------
(* batch_log_trades *)

\* trades[i:i + self.batch_size], i counted from 0
Chunk_short(trades, i) ==
    SubSeq(trades, i + 1, Min(i + batch_size - 1, Len(trades)))

Chunk(trades, i) ==
    SubSeq(trades, i + 1, Min(i + batch_size, Len(trades)))

\* The store's part in one batch_log_trades call: for the c-th batch-writer
\* session, 0 (it succeeds), j (its j-th put_item raises) or length + 1
\* (flushing it on exit raises).
FailPatterns(n) ==
    LET K == (n + batch_size - 1) \div batch_size
    IN  {fp \in [1..K -> 0..(batch_size + 1)] :
            \A c \in 1..K : fp[c] <= Min(batch_size, n - batch_size * (c - 1)) + 1}

\* the loop body for the batch starting at i, then the rest of the loop
RECURSIVE BatchLoop(_, _, _, _, _)
BatchLoop(trades, fails, i, c, acc) ==
    IF i >= Len(trades) THEN acc
    ELSE LET batch   == Chunk(trades, i)
             f       == fails[c]
             items   == [j \in 1..Len(batch) |-> convert_decimals(asdict(batch[j]))]
             handed  == SubSeq(items, 1, IF f = 0 THEN Len(batch) ELSE Min(f, Len(batch)))
             counted == IF f = 0 \/ f > Len(batch) THEN Len(batch) ELSE f - 1
         IN  BatchLoop(trades, fails, i + batch_size, c + 1,
                [calls  |-> Append(acc.calls,
                              StoreCall("caller", "batch_writer", TradeTable,
                                        batch, handed, f = 0)),
                 success_count |-> acc.success_count + counted,
                 stored |-> acc.stored \cup (IF f = 0 THEN SeqToSet(items) ELSE {})])

batch_log_trades(trades, fails) ==
    /\ CallerFree
    /\ LET r == BatchLoop(trades, fails, 0, 1,
                          [calls |-> <<>>, success_count |-> 0, stored |-> {}])
       IN  /\ lastOp' = OpResult("batch_log_trades", PyList(trades), r.success_count, FALSE, r.calls)
           /\ tables' = [tables EXCEPT ![TradeTable] = @ \cup r.stored]
    /\ opCount' = opCount + 1
    /\ UNCHANGED NotCaller

-----------------------------------------------------------------------------
(* The read accessors *)

PartitionKeyName == "StrategyId"
SortKeyName == "Timestamp"
FilterAttrName == "timestamp"

get_strategy_performance(strategy_id, days, now, ok) ==
    /\ CallerFree
    /\ LET end_date   == now
           start_date == end_date - timedelta_days(days)
           matching   == {it \in tables[MetricsTable] :
                             /\ KeyEq(it, PartitionKeyName, PyStr(strategy_id))
                             /\ KeyBetween(it, SortKeyName, start_date, end_date)}
           call       == StoreCall("caller", "query", MetricsTable, <<>>, <<>>, ok)
       IN  IF ok
           THEN \E q \in Ascending(matching, SortKeyName) :
                   lastOp' = OpResult("get_strategy_performance",
                                      <<strategy_id, days, now>>, q, FALSE, <<call>>)
           ELSE lastOp' = OpResult("get_strategy_performance",
                                   <<strategy_id, days, now>>, <<>>, FALSE, <<call>>)
    /\ opCount' = opCount + 1
    /\ UNCHANGED <<tables, NotCaller>>

get_recent_trades(hours, now, ok) ==
    /\ CallerFree
    /\ LET cutoff_time == now - timedelta_hours(hours)
           matching    == {it \in tables[TradeTable] : AttrGte(it, FilterAttrName, cutoff_time)}
           call        == StoreCall("caller", "scan", TradeTable, <<>>, <<>>, ok)
       IN  IF ok
           THEN \E q \in Orderings(matching) :
                   lastOp' = OpResult("get_recent_trades", <<hours, now>>, q, FALSE, <<call>>)
           ELSE lastOp' = OpResult("get_recent_trades", <<hours, now>>, <<>>, FALSE, <<call>>)
    /\ opCount' = opCount + 1
    /\ UNCHANGED <<tables, NotCaller>>

-----------------------------------------------------------------------------
(* The processor thread and shutdown *)

CallerVars == <<tables, lastOp, opCount, normArg, normRes>>

\* while self.running:
batch_processor_loops_forever ==
    /\ workerPc = "check"
    /\ workerPc' = "sleep" /\ sleepLeft' = flush_interval
    /\ UNCHANGED <<CallerVars, data_queue, running, workerCalls, shutdownPc, joinLeft>>

batch_processor_check ==
    /\ workerPc = "check"
    /\ IF running
       THEN workerPc' = "sleep" /\ sleepLeft' = flush_interval
       ELSE workerPc' = "exited" /\ sleepLeft' = sleepLeft
    /\ UNCHANGED <<CallerVars, data_queue, running, workerCalls, shutdownPc, joinLeft>>

\* time.sleep(self.flush_interval) returns; the body that follows is `pass`
batch_processor_wake_flushes ==
    /\ workerPc = "sleep" /\ sleepLeft = 0
    /\ workerPc' = "check"
    /\ workerCalls' = Append(workerCalls,
                         StoreCall("worker", "batch_writer", TradeTable, <<>>, data_queue, TRUE))
    /\ UNCHANGED <<CallerVars, data_queue, running, sleepLeft, shutdownPc, joinLeft>>

batch_processor_wake ==
    /\ workerPc = "sleep" /\ sleepLeft = 0
    /\ workerPc' = "check"
    /\ UNCHANGED <<CallerVars, data_queue, running, sleepLeft, workerCalls, shutdownPc, joinLeft>>

\* self.running = False
shutdown_begin ==
    /\ shutdownPc \in {"idle", "returned"}
    /\ running' = FALSE
    /\ shutdownPc' = "flagged"
    /\ UNCHANGED <<CallerVars, data_queue, workerPc, sleepLeft, workerCalls, joinLeft>>

\* if self.processor_thread.is_alive(): self.processor_thread.join(timeout=5)
shutdown_join ==
    /\ shutdownPc = "flagged"
    /\ IF workerPc # "exited"
       THEN shutdownPc' = "joining" /\ joinLeft' = join_timeout
       ELSE shutdownPc' = "returned" /\ joinLeft' = joinLeft
    /\ UNCHANGED <<CallerVars, data_queue, running, workerPc, sleepLeft, workerCalls>>

\* join returns: the thread ended or the timeout ran out; "shutdown complete"
shutdown_return ==
    /\ shutdownPc = "joining"
    /\ workerPc = "exited" \/ joinLeft = 0
    /\ shutdownPc' = "returned"
    /\ UNCHANGED <<CallerVars, data_queue, running, workerPc, sleepLeft, workerCalls, joinLeft>>

\* Time passes while every thread waits on a timer.
Tick ==
    /\ workerPc \in {"sleep", "exited"}
    /\ workerPc = "sleep" => sleepLeft > 0
    /\ shutdownPc # "flagged"
    /\ shutdownPc = "joining" => joinLeft > 0 /\ workerPc # "exited"
    /\ workerPc = "sleep" \/ shutdownPc = "joining"
    /\ sleepLeft' = IF workerPc = "sleep" THEN Max(0, sleepLeft - TickLen) ELSE sleepLeft
    /\ joinLeft' = IF shutdownPc = "joining" THEN Max(0, joinLeft - TickLen) ELSE joinLeft
    /\ UNCHANGED <<CallerVars, data_queue, running, workerPc, workerCalls, shutdownPc>>

-----------------------------------------------------------------------------
(* The specification of the logger *)

\* the state __init__ leaves: empty queue, running set, the thread started
Init ==
    /\ tables = [n \in TableNames |-> {}]
    /\ data_queue = <<>>
    /\ running = TRUE
    /\ workerPc = "check"
    /\ sleepLeft = 0
    /\ workerCalls = <<>>
    /\ shutdownPc = "idle"
    /\ joinLeft = 0
    /\ lastOp = OpResult("init", PyNone, FALSE, FALSE, <<>>)
    /\ opCount = 0
    /\ normArg = PyNone
    /\ normRes = <<>>

Dates == {"2026-01-01"}
WindowDays == {1, 7}
WindowHours == {1, 24}

Next ==
    \/ \E trade \in TradeInputs, ok \in BOOLEAN : log_trade(trade, ok)
    \/ \E metrics \in MetricInputs, ok \in BOOLEAN : log_strategy_metrics(metrics, ok)
    \/ \E signal \in SignalInputs, ok \in BOOLEAN : log_market_signal(signal, ok)
    \/ \E date \in Dates, metrics \in DailyInputs, now \in Instants, ok \in BOOLEAN :
          log_daily_performance(date, metrics, now, ok)
    \/ \E n \in 0..MaxLen : \E fails \in FailPatterns(n) :
          batch_log_trades(TradeList(n), fails)
    \/ \E sid \in StrategyIds, days \in WindowDays, now \in Instants, ok \in BOOLEAN :
          get_strategy_performance(sid, days, now, ok)
    \/ \E hours \in WindowHours, now \in Instants, ok \in BOOLEAN :
          get_recent_trades(hours, now, ok)
    \/ batch_processor_check
    \/ batch_processor_wake
    \/ shutdown_begin
    \/ shutdown_join
    \/ shutdown_return
    \/ Tick

Spec == Init /\ [][Next]_vars

\* threads are scheduled and time passes
Fairness ==
    /\ WF_vars(batch_processor_check)
    /\ WF_vars(batch_processor_wake)
    /\ WF_vars(shutdown_join)
    /\ WF_vars(shutdown_return)
    /\ WF_vars(Tick)

FairSpec == Spec /\ Fairness

-----------------------------------------------------------------------------
(* batch_log_trades alone, on lists of up to MaxTrades trades *)

BatchNext ==
    /\ opCount = 0
    /\ \E n \in 0..MaxTrades : \E fails \in FailPatterns(n) :
          batch_log_trades(TradeList(n), fails)

BatchSpec == Init /\ [][BatchNext]_vars

-----------------------------------------------------------------------------
(* _convert_decimals alone, on values of nesting depth up to 2 *)

Scalars ==
    {PyFloat("0.85"), PyFloat("nan"), PyFloat("-inf"), PyDecimal("0.85"),
     PyStr("nan"), PyInt("45"), PyNone}

KeyNames == <<"rsi", "macd", "volume_sma", "price_momentum">>
NormKeys == {KeyNames[i] : i \in 1..Min(MaxLen, Len(KeyNames))}

ListsOver(S) == UNION {{PyList(q) : q \in [1..m -> S]} : m \in 0..MaxLen}
DictsOver(S) == UNION {{PyDict(f) : f \in [D -> S]} : D \in SUBSET NormKeys}

Depth1 == Scalars \cup ListsOver(Scalars) \cup DictsOver(Scalars)
NormInputs ==
    Depth1 \cup {PyList(<<x>>) : x \in Depth1} \cup {PyDict([rsi |-> x]) : x \in Depth1}

NormInit ==
    /\ Init!1 /\ Init!2 /\ Init!3 /\ Init!4 /\ Init!5
    /\ Init!6 /\ Init!7 /\ Init!8 /\ Init!9 /\ Init!10
    /\ normArg \in NormInputs
    /\ normRes = <<>>

\* one more application: first to the argument, then to the last result
apply_convert_decimals ==
    /\ Len(normRes) < 2
    /\ normRes' = Append(normRes,
                     convert_decimals(IF normRes = <<>> THEN normArg
                                      ELSE normRes[Len(normRes)]))
    /\ UNCHANGED <<tables, data_queue, running, workerPc, sleepLeft, workerCalls,
                   shutdownPc, joinLeft, lastOp, opCount, normArg>>

NormNext == apply_convert_decimals

NormSpec == NormInit /\ [][NormNext]_vars

-----------------------------------------------------------------------------
(* Properties *)

LogOps == {"log_trade", "log_strategy_metrics", "log_market_signal", "log_daily_performance"}
GetOps == {"get_strategy_performance", "get_recent_trades"}
PutCalls == {"put_item", "batch_writer"}

OwnTable(op) ==
    CASE op = "log_trade"             -> TradeTable
      [] op = "log_strategy_metrics"  -> MetricsTable
      [] op = "log_market_signal"     -> SignalsTable
      [] op = "log_daily_performance" -> PerfTable

CeilDiv(n, d) == (n + d - 1) \div d

\* C1: batch_log_trades on n trades opens ceil(n/25) batch-writer sessions,
\* whatever sessions fail; the c-th session is handed the c-th consecutive
\* slice of at most 25 trades, in the input order, each trade normalized.
C1_BatchPartition ==
    lastOp.op = "batch_log_trades" =>
        LET trades == lastOp.arg.v
            calls  == lastOp.calls
            n      == Len(trades)
        IN  /\ Len(calls) = CeilDiv(n, 25)
            /\ \A c \in 1..Len(calls) :
                  /\ calls[c].op = "batch_writer"
                  /\ calls[c].thread = "caller"
                  /\ calls[c].chunk = SubSeq(trades, 25 * (c - 1) + 1, Min(25 * c, n))
                  /\ Len(calls[c].chunk) <= 25
                  /\ Len(calls[c].items) <= Len(calls[c].chunk)
                  /\ \A j \in 1..Len(calls[c].items) :
                        calls[c].items[j] = convert_decimals(asdict(calls[c].chunk[j]))
                  /\ calls[c].ok => Len(calls[c].items) = Len(calls[c].chunk)

\* three sessions were opened although the first one failed
C1_Witness ==
    /\ lastOp.op = "batch_log_trades"
    /\ Len(lastOp.arg.v) = 2 * batch_size + 1
    /\ Len(lastOp.calls) = 3
    /\ ~lastOp.calls[1].ok
    /\ lastOp.calls[3].ok

RECURSIVE PersistedCount(_)
PersistedCount(calls) ==
    IF calls = <<>> THEN 0
    ELSE (IF Head(calls).ok THEN Len(Head(calls).chunk) ELSE 0) + PersistedCount(Tail(calls))

\* C2: the integer batch_log_trades returns is the number of input trades
\* the store persisted.
C2_ReturnsPersistedCount ==
    lastOp.op = "batch_log_trades" => lastOp.ret = PersistedCount(lastOp.calls)

C4_UnreachableStoreRaises ==
    lastOp.op \in GetOps => (lastOp.raised <=> ~lastOp.calls[1].ok)

\* C5: every put call (put one, put batch) is made by the worker thread.
C5_PutsOnlyOnWorker ==
    \A i \in 1..Len(lastOp.calls) :
        lastOp.calls[i].op \in PutCalls => lastOp.calls[i].thread = "worker"

\* C6: a get_strategy_performance call that reached the store returns the
\* persisted StrategyMetric items of that strategy with a timestamp in
\* [now - days, now], in ascending timestamp order.
C6_QueryReturnsPersistedMetrics ==
    (lastOp.op = "get_strategy_performance" /\ lastOp.calls[1].ok) =>
        LET sid  == lastOp.arg[1]
            days == lastOp.arg[2]
            now  == lastOp.arg[3]
        IN  lastOp.ret \in
               Ascending({it \in tables[MetricsTable] :
                             /\ it.v.strategy_id = PyStr(sid)
                             /\ now - 24 * days <= it.v.timestamp.v
                             /\ it.v.timestamp.v <= now}, "timestamp")

RECURSIVE IsValue(_)
IsValue(x) ==
    /\ DOMAIN x = {"t", "v"}
    /\ CASE x.t = "dict" -> \A k \in DOMAIN x.v : IsValue(x.v[k])
         [] x.t = "list" -> DOMAIN x.v = 1..Len(x.v) /\ \A i \in 1..Len(x.v) : IsValue(x.v[i])
         [] OTHER -> x.t \in {"float", "Decimal", "str", "int", "isostr", "None"}

\* same mapping keys and same sequence lengths, at every depth
RECURSIVE SameShape(_, _)
SameShape(x, y) ==
    CASE x.t = "dict" ->
            /\ y.t = "dict"
            /\ DOMAIN y.v = DOMAIN x.v
            /\ \A k \in DOMAIN x.v : SameShape(x.v[k], y.v[k])
      [] x.t = "list" ->
            /\ y.t = "list"
            /\ Len(y.v) = Len(x.v)
            /\ \A i \in 1..Len(x.v) : SameShape(x.v[i], y.v[i])
      [] x.t = "float" -> y.t = "Decimal"
      [] OTHER -> y = x

\* C7: _convert_decimals yields a value for every value, keeps mapping keys
\* and sequence lengths and order, and applied to its own result changes
\* nothing.
C7_NormalizeTotalIdempotent ==
    /\ Len(normRes) >= 1 =>
          /\ IsValue(normRes[1])
          /\ SameShape(normArg, normRes[1])
          /\ ~HasFloat(normRes[1])
    /\ Len(normRes) = 2 => normRes[2] = normRes[1]

\* a mapping holding a list with a float was normalized twice
C7_Witness ==
    /\ Len(normRes) = 2
    /\ normArg.t = "dict"
    /\ "rsi" \in DOMAIN normArg.v
    /\ normArg.v.rsi.t = "list"
    /\ HasFloat(normArg.v.rsi)
    /\ normRes[1] # normArg

\* C8: a direct logging call raises nothing, makes at most one put, to its
\* own table, and returns True exactly when that put was acknowledged; the
\* tables change by that one item when it returns True and not at all when
\* it returns False.
C8_DirectLogResult ==
    [][ (opCount' = opCount + 1 /\ lastOp'.op \in LogOps) =>
          LET r   == lastOp'
              own == OwnTable(lastOp'.op)
          IN  /\ ~r.raised
              /\ Len(r.calls) <= 1
              /\ \A i \in 1..Len(r.calls) :
                    r.calls[i].op = "put_item" /\ r.calls[i].table = own
              /\ r.ret = (Len(r.calls) = 1 /\ r.calls[1].ok)
              /\ r.ret = TRUE =>
                    tables' = [tables EXCEPT ![own] = @ \cup {r.calls[1].items[1]}]
              /\ r.ret = FALSE => tables' = tables ]_vars

\* a logging call whose put the store refused returned False
C8_Witness ==
    /\ lastOp.op \in LogOps
    /\ Len(lastOp.calls) = 1
    /\ ~lastOp.calls[1].ok
    /\ lastOp.ret = FALSE

\* C9: the write queue is always empty and the worker never calls the store.
C9_QueueUnused ==
    /\ data_queue = <<>>
    /\ workerCalls = <<>>

\* operations were made, shutdown has returned and the worker has ended
C9_Witness ==
    /\ opCount = MaxOps
    /\ lastOp.op \in LogOps
    /\ lastOp.ret = TRUE
    /\ shutdownPc = "returned"
    /\ workerPc = "exited"

====
